---- MODULE Spec2Model ----
(***************************************************************************)
(* Model of OSCClient (src/src/osc-client.ts): the address-keyed table of  *)
(* response callbacks, the per-call 1000 ms timeout timers, the /xremote   *)
(* keep-alive interval, connect and close.  Every handler of the Node      *)
(* event loop (a public method call, the osc.on("*") dispatcher, a timer   *)
(* callback) runs to completion and is one action.                         *)
(***************************************************************************)
EXTENDS Integers, Sequences, FiniteSets, TLC

\* ---------------------------------------------------------------- bounds
MaxCalls == 2       \* sendAndReceive calls issued in one behaviour
MaxVal == 1         \* datagram arguments are drawn from 0..MaxVal
MaxIntervals == 2   \* setInterval timers created in one behaviour
MaxChannel == 10    \* the highest channel number passed to a channel method
MaxGets == 1        \* get calls of the channel methods issued in one behaviour
Grid == 5           \* steps from the centre of a codec domain to its boundary

\* ------------------------------------------------------- inputs and types
Addresses == {"/info", "/status"}

Values == 0..MaxVal

\* The argument lists of inbound datagrams: none, one value, or a value
\* followed by a further argument (the dispatcher reads only the first).
ArgLists == {<<>>} \cup {<<v>> : v \in Values} \cup {<<v, 0>> : v \in Values}

NoCall == 0

NoError == [kind |-> "none", address |-> ""]

\* Error(`Timeout waiting for response from ${address}`)
TimeoutError(address) == [kind |-> "Timeout", address |-> address]

\* ------------------------------------------------------------------ state
VARIABLES
    responseCallbacks,  \* the Map, as a set of <<address, call>> entries
    isConnected,        \* the connected flag
    sock,               \* the UDP socket of the osc instance: "init", "open", "closed"
    calls,              \* the promises returned by sendAndReceive, in issue order
    timeouts,           \* the scheduled setTimeout timers (call ids), in firing order
    intervals,          \* number of setInterval keep-alive timers scheduled
    last                \* what the handler that ran last did

vars == <<responseCallbacks, isConnected, sock, calls, timeouts, intervals, last>>

\* ------------------------------------------------------------ Map helpers
\* Map.prototype.has
MapHas(m, address) == \E e \in m : e[1] = address

\* Map.prototype.get: the call whose resolve is stored under address, or NoCall
MapGet(m, address) ==
    IF MapHas(m, address) THEN (CHOOSE e \in m : e[1] = address)[2] ELSE NoCall

\* Map.prototype.delete
MapDelete(m, address) == {e \in m : e[1] # address}

\* Variant of Map.prototype.set that keeps the entry already stored
MapSetKeepOld(m, address, call) == m \cup {<<address, call>>}

\* Map.prototype.set: the entry of address, if any, is replaced
MapSet(m, address, call) == MapDelete(m, address) \cup {<<address, call>>}

\* ------------------------------------------------------------ the promise
\* resolve(value): settles a pending promise, no effect on a settled one
Resolve(cs, c, v) ==
    IF cs[c].state = "pending"
    THEN [cs EXCEPT ![c].state = "resolved", ![c].value = v]
    ELSE cs

\* reject(error): settles a pending promise, no effect on a settled one
Reject(cs, c, err) ==
    IF cs[c].state = "pending"
    THEN [cs EXCEPT ![c].state = "rejected", ![c].error = err]
    ELSE cs

\* The timers still scheduled
Scheduled(ts) == {ts[i] : i \in 1..Len(ts)}

\* A datagram for address was delivered: every call for that address whose
\* wait window is still open has heard one.  The result is built as a
\* sequence (<<>> \o ...) so that Resolve, Reject and Append apply to it as
\* they do to calls.
Heard(cs, ts, address) ==
    <<>> \o [c \in 1..Len(cs) |->
                IF cs[c].address = address /\ c \in Scheduled(ts)
                THEN [cs[c] EXCEPT !.heard = TRUE]
                ELSE cs[c]]

\* ------------------------------------------------------------ sendCommand
\* Variant of sendCommand without the isConnected guard
sendCommandUnguarded(connected, table, address, args) ==
    <<[address |-> address, args |-> args, waiter |-> MapGet(table, address)]>>

\* The datagrams sendCommand hands to the transport: none when not connected.
\* waiter is the call registered under the address at the moment of osc.send.
sendCommand(connected, table, address, args) ==
    IF ~connected
    THEN <<>>
    ELSE <<[address |-> address, args |-> args, waiter |-> MapGet(table, address)]>>

\* What a handler did: the handler (op), the address and the call it ran
\* for, the number of arguments of the datagram it received, the callback
\* it invoked (cb, of call cbCall, with value cbValue) and the datagrams it
\* sent; sockBefore is the state of the socket when the handler started and
\* input holds the arguments of a public method (see EventIn).
Event(op, address, args, call, cb, cbCall, sent) ==
    [op |-> op, address |-> address, argc |-> Len(args), call |-> call,
     cb |-> cb, cbCall |-> cbCall,
     cbValue |-> IF cb = "resolve" THEN args[1] ELSE 0, sent |-> sent,
     sockBefore |-> sock, input |-> <<>>]

\* The event of a public method called with the arguments input
EventIn(input, e) == [e EXCEPT !.input = input]

\* ------------------------------------------------------------------- Init
Init ==
    /\ responseCallbacks = {}
    /\ isConnected = FALSE
    /\ sock = "init"
    /\ calls = <<>>
    /\ timeouts = <<>>
    /\ intervals = 0
    /\ last = Event("new", "", <<>>, NoCall, "none", NoCall, <<>>)

\* ---------------------------------------------------------------- actions
\* Variant of connect that sends /xcontrol before it sets the flag
connectSendBeforeFlag ==
    \E opened \in BOOLEAN :
        IF opened
        THEN /\ intervals < MaxIntervals
             /\ sock' = "open"
             /\ isConnected' = TRUE
             /\ intervals' = intervals + 1
             /\ last' = Event("connect", "", <<>>, NoCall, "none", NoCall,
                              sendCommand(isConnected, responseCallbacks, "/xcontrol", <<>>))
             /\ UNCHANGED <<responseCallbacks, calls, timeouts>>
        ELSE /\ last' = Event("connectFailed", "", <<>>, NoCall, "none", NoCall, <<>>)
             /\ UNCHANGED <<responseCallbacks, isConnected, sock, calls, timeouts, intervals>>

\* connect(): osc.open may throw (the promise is then rejected and nothing
\* else happens); otherwise the flag is set, /xcontrol is sent and a new
\* keep-alive interval is scheduled.
connect ==
    \E opened \in BOOLEAN :
        IF opened
        THEN /\ intervals < MaxIntervals
             /\ sock' = "open"
             /\ isConnected' = TRUE
             /\ intervals' = intervals + 1
             /\ last' = Event("connect", "", <<>>, NoCall, "none", NoCall,
                              sendCommand(TRUE, responseCallbacks, "/xcontrol", <<>>))
             /\ UNCHANGED <<responseCallbacks, calls, timeouts>>
        ELSE /\ last' = Event("connectFailed", "", <<>>, NoCall, "none", NoCall, <<>>)
             /\ UNCHANGED <<responseCallbacks, isConnected, sock, calls, timeouts, intervals>>

\* The setInterval callback: () => this.sendCommand("/xremote")
keepAlive ==
    /\ intervals > 0
    /\ last' = Event("keepAlive", "", <<>>, NoCall, "none", NoCall,
                     sendCommand(isConnected, responseCallbacks, "/xremote", <<>>))
    /\ UNCHANGED <<responseCallbacks, isConnected, sock, calls, timeouts, intervals>>

\* Variant of sendAndReceive that sends the request before it registers
\* the callback
sendAndReceiveSendFirst(address) ==
    /\ Len(calls) < MaxCalls
    /\ LET c == Len(calls) + 1
           sent == sendCommand(isConnected, responseCallbacks, address, <<>>)
           table == MapSet(responseCallbacks, address, c)
       IN /\ responseCallbacks' = table
          /\ calls' = Append(calls, [address |-> address, state |-> "pending",
                                     value |-> 0, error |-> NoError,
                                     overwritten |-> FALSE, heard |-> FALSE])
          /\ timeouts' = Append(timeouts, c)
          /\ last' = Event("issue", address, <<>>, c, "none", NoCall, sent)
    /\ UNCHANGED <<isConnected, sock, intervals>>

\* sendAndReceive(address): registers resolve under address, sends the
\* request, schedules the 1000 ms timer.  A call whose entry is replaced is
\* marked overwritten.
sendAndReceive(address) ==
    /\ Len(calls) < MaxCalls
    /\ LET c == Len(calls) + 1
           old == MapGet(responseCallbacks, address)
           table == MapSet(responseCallbacks, address, c)
           sent == sendCommand(isConnected, table, address, <<>>)
           marked == IF old = NoCall THEN calls
                     ELSE [calls EXCEPT ![old].overwritten = TRUE]
       IN /\ responseCallbacks' = table
          /\ calls' = Append(marked, [address |-> address, state |-> "pending",
                                      value |-> 0, error |-> NoError,
                                      overwritten |-> FALSE, heard |-> FALSE])
          /\ timeouts' = Append(timeouts, c)
          /\ last' = Event("issue", address, <<>>, c, "none", NoCall, sent)
    /\ UNCHANGED <<isConnected, sock, intervals>>

\* Variant of the dispatcher that does not compare the address: it resolves
\* a registered callback whatever address the datagram carries
onMessageAnyAddress(address, args) ==
    /\ sock = "open"
    /\ LET c == IF responseCallbacks = {} THEN NoCall
                ELSE (CHOOSE e \in responseCallbacks : TRUE)[2]
       IN IF c # NoCall /\ Len(args) > 0
          THEN /\ calls' = Resolve(Heard(calls, timeouts, address), c, args[1])
               /\ responseCallbacks' = MapDelete(responseCallbacks, calls[c].address)
               /\ last' = Event("message", address, args, NoCall, "resolve", c, <<>>)
          ELSE /\ last' = Event("message", address, args, NoCall, "none", NoCall, <<>>)
               /\ calls' = Heard(calls, timeouts, address)
               /\ UNCHANGED responseCallbacks
    /\ UNCHANGED <<isConnected, sock, timeouts, intervals>>

\* Variant of the dispatcher that tests the first argument for truthiness
\* instead of the length of the argument list
onMessageTruthy(address, args) ==
    /\ sock = "open"
    /\ LET c == MapGet(responseCallbacks, address)
       IN IF c # NoCall /\ Len(args) > 0 /\ args[1] # 0
          THEN /\ calls' = Resolve(Heard(calls, timeouts, address), c, args[1])
               /\ responseCallbacks' = MapDelete(responseCallbacks, address)
               /\ last' = Event("message", address, args, NoCall, "resolve", c, <<>>)
          ELSE /\ last' = Event("message", address, args, NoCall, "none", NoCall, <<>>)
               /\ calls' = Heard(calls, timeouts, address)
               /\ UNCHANGED responseCallbacks
    /\ UNCHANGED <<isConnected, sock, timeouts, intervals>>

\* Variant of the dispatcher that deletes the entry before it looks at the
\* arguments
onMessageDeleteFirst(address, args) ==
    /\ sock = "open"
    /\ LET c == MapGet(responseCallbacks, address)
       IN /\ responseCallbacks' = MapDelete(responseCallbacks, address)
          /\ IF c # NoCall /\ Len(args) > 0
             THEN /\ calls' = Resolve(Heard(calls, timeouts, address), c, args[1])
                  /\ last' = Event("message", address, args, NoCall, "resolve", c, <<>>)
             ELSE /\ last' = Event("message", address, args, NoCall, "none", NoCall, <<>>)
                  /\ calls' = Heard(calls, timeouts, address)
    /\ UNCHANGED <<isConnected, sock, timeouts, intervals>>

\* The osc.on("*") dispatcher, run for an inbound datagram; datagrams are
\* delivered only while the socket is open.
onMessage(address, args) ==
    /\ sock = "open"
    /\ LET c == MapGet(responseCallbacks, address)
       IN IF c # NoCall /\ Len(args) > 0
          THEN /\ calls' = Resolve(Heard(calls, timeouts, address), c, args[1])
               /\ responseCallbacks' = MapDelete(responseCallbacks, address)
               /\ last' = Event("message", address, args, NoCall, "resolve", c, <<>>)
          ELSE /\ last' = Event("message", address, args, NoCall, "none", NoCall, <<>>)
               /\ calls' = Heard(calls, timeouts, address)
               /\ UNCHANGED responseCallbacks
    /\ UNCHANGED <<isConnected, sock, timeouts, intervals>>

\* Variant of the timeout handler that clears the whole table
onTimeoutClearAll ==
    /\ timeouts # <<>>
    /\ LET c == Head(timeouts)
           address == calls[c].address
       IN /\ timeouts' = Tail(timeouts)
          /\ IF MapHas(responseCallbacks, address)
             THEN /\ responseCallbacks' = {}
                  /\ calls' = Reject(calls, c, TimeoutError(address))
                  /\ last' = Event("timeout", address, <<>>, c, "reject", c, <<>>)
             ELSE /\ last' = Event("timeout", address, <<>>, c, "none", NoCall, <<>>)
                  /\ UNCHANGED <<responseCallbacks, calls>>
    /\ UNCHANGED <<isConnected, sock, intervals>>

\* Variant of the timeout handler that sends the request again
onTimeoutRetry ==
    /\ timeouts # <<>>
    /\ LET c == Head(timeouts)
           address == calls[c].address
       IN /\ timeouts' = Tail(timeouts)
          /\ IF MapHas(responseCallbacks, address)
             THEN /\ responseCallbacks' = MapDelete(responseCallbacks, address)
                  /\ calls' = Reject(calls, c, TimeoutError(address))
                  /\ last' = Event("timeout", address, <<>>, c, "reject", c,
                                   sendCommand(isConnected, responseCallbacks, address, <<>>))
             ELSE /\ last' = Event("timeout", address, <<>>, c, "none", NoCall, <<>>)
                  /\ UNCHANGED <<responseCallbacks, calls>>
    /\ UNCHANGED <<isConnected, sock, intervals>>

\* The setTimeout callback of the oldest outstanding timer (all timers have
\* the same 1000 ms delay, so they fire in the order they were scheduled).
onTimeout ==
    /\ timeouts # <<>>
    /\ LET c == Head(timeouts)
           address == calls[c].address
       IN /\ timeouts' = Tail(timeouts)
          /\ IF MapHas(responseCallbacks, address)
             THEN /\ responseCallbacks' = MapDelete(responseCallbacks, address)
                  /\ calls' = Reject(calls, c, TimeoutError(address))
                  /\ last' = Event("timeout", address, <<>>, c, "reject", c, <<>>)
             ELSE /\ last' = Event("timeout", address, <<>>, c, "none", NoCall, <<>>)
                  /\ UNCHANGED <<responseCallbacks, calls>>
    /\ UNCHANGED <<isConnected, sock, intervals>>

\* Variant of close that cancels one keep-alive timer each time it is called
closeCancelsOne ==
    /\ isConnected' = FALSE
    /\ sock' = "closed"
    /\ intervals' = IF intervals > 0 THEN intervals - 1 ELSE 0
    /\ last' = Event("close", "", <<>>, NoCall, "none", NoCall, <<>>)
    /\ UNCHANGED <<responseCallbacks, calls, timeouts>>

\* close(): clears the flag and closes the socket; the table and the timers
\* are not touched.
close ==
    /\ isConnected' = FALSE
    /\ sock' = "closed"
    /\ last' = Event("close", "", <<>>, NoCall, "none", NoCall, <<>>)
    /\ UNCHANGED <<responseCallbacks, calls, timeouts, intervals>>

Next ==
    \/ connect
    \/ keepAlive
    \/ \E address \in Addresses : sendAndReceive(address)
    \/ \E address \in Addresses, args \in ArgLists : onMessage(address, args)
    \/ onTimeout
    \/ close

Spec == Init /\ [][Next]_vars

\* ------------------------------------------------------- channel controls
\* The channel numbers passed to the channel methods: one-digit and
\* two-digit ones.
Channels == {1, MaxChannel}

\* One decimal digit as a string
DigitChar(d) ==
    CASE d = 0 -> "0" [] d = 1 -> "1" [] d = 2 -> "2" [] d = 3 -> "3"
      [] d = 4 -> "4" [] d = 5 -> "5" [] d = 6 -> "6" [] d = 7 -> "7"
      [] d = 8 -> "8" [] d = 9 -> "9"

RECURSIVE toString(_)
\* Number.prototype.toString of a non-negative integer
toString(n) ==
    IF n < 10 THEN DigitChar(n) ELSE toString(n \div 10) \o DigitChar(n % 10)

RECURSIVE padStart(_, _, _)
\* String.prototype.padStart with a fill string of one character
padStart(str, targetLength, fill) ==
    IF Len(str) >= targetLength THEN str
    ELSE padStart(fill \o str, targetLength, fill)

\* Variant of getChannelPath without the zero padding
getChannelPathNoPad(channel) == "/ch/" \o toString(channel)

\* `/ch/${channel.toString().padStart(2, "0")}`
getChannelPath(channel) == "/ch/" \o padStart(toString(channel), 2, "0")

\* The addresses the channel methods use
ChannelAddresses ==
    {getChannelPath(ch) \o "/mix/fader" : ch \in Channels}
        \cup {getChannelPath(ch) \o "/mix/on" : ch \in Channels}

\* Variant of setFader that goes through the callback table: it removes the
\* entry stored under its address
setFaderDropsEntry(channel, level) ==
    /\ LET path == getChannelPath(channel) \o "/mix/fader"
       IN /\ responseCallbacks' = MapDelete(responseCallbacks, path)
          /\ last' = EventIn(<<channel, level>>,
                         Event("setFader", path, <<>>, NoCall, "none", NoCall,
                               sendCommand(isConnected, responseCallbacks, path, <<level>>)))
    /\ UNCHANGED <<isConnected, sock, calls, timeouts, intervals>>

\* setFader(channel, level): fire and forget
setFader(channel, level) ==
    /\ LET path == getChannelPath(channel) \o "/mix/fader"
       IN last' = EventIn(<<channel, level>>,
                      Event("setFader", path, <<>>, NoCall, "none", NoCall,
                            sendCommand(isConnected, responseCallbacks, path, <<level>>)))
    /\ UNCHANGED <<responseCallbacks, isConnected, sock, calls, timeouts, intervals>>

\* getFader(channel): return await this.sendAndReceive(path)
getFader(channel) ==
    /\ Len(calls) < MaxGets
    /\ sendAndReceive(getChannelPath(channel) \o "/mix/fader")

\* The value getFader returns for the value its call resolved with
getFaderReturn(value) == value

\* Variant of the mute encoding without the inversion
muteWireSame(mute) == IF mute THEN 1 ELSE 0

\* mute ? 0 : 1
muteWire(mute) == IF mute THEN 0 ELSE 1

\* muteChannel(channel, mute): fire and forget
muteChannel(channel, mute) ==
    /\ LET path == getChannelPath(channel) \o "/mix/on"
       IN last' = EventIn(<<channel, mute>>,
                      Event("muteChannel", path, <<>>, NoCall, "none", NoCall,
                            sendCommand(isConnected, responseCallbacks, path,
                                        <<muteWire(mute)>>)))
    /\ UNCHANGED <<responseCallbacks, isConnected, sock, calls, timeouts, intervals>>

\* getMute(channel): const value = await this.sendAndReceive(path)
getMute(channel) ==
    /\ Len(calls) < MaxGets
    /\ sendAndReceive(getChannelPath(channel) \o "/mix/on")

\* The value getMute returns for the value its call resolved with:
\* value === 0
getMuteReturn(value) == value = 0

\* The handlers of a client that is connected at most once and whose
\* channel methods are called
ChannelNext ==
    \/ (sock = "init" /\ connect)
    \/ keepAlive
    \/ \E channel \in Channels, level \in Values : setFader(channel, level)
    \/ \E channel \in Channels : getFader(channel)
    \/ \E channel \in Channels, mute \in BOOLEAN : muteChannel(channel, mute)
    \/ \E channel \in Channels : getMute(channel)
    \/ \E address \in ChannelAddresses, args \in ArgLists : onMessage(address, args)
    \/ onTimeout
    \/ close

ChannelSpec == Init /\ [][ChannelNext]_vars

\* -------------------------------------------------- JavaScript Number values
\* A JavaScript number is an IEEE 754 binary64 value: a sign, a significand
\* of Precision bits and an exponent, and every arithmetic operation returns
\* the exact result rounded to the nearest such value, ties to even.  The
\* significand does not fit the integers of the model checker: it is kept
\* as a sequence of digits in base Base, lowest digit first, without leading
\* zero digits.  Zero has no digits.
Precision == 53

DigitBits == 15

Base == 2 ^ DigitBits

\* The digits of a natural number
RECURSIVE NatDigits(_)
NatDigits(n) == IF n = 0 THEN <<>> ELSE <<n % Base>> \o NatDigits(n \div Base)

\* The digits without leading (highest) zero digits
RECURSIVE Trim(_)
Trim(a) ==
    IF a = <<>> THEN <<>>
    ELSE IF a[Len(a)] # 0 THEN a
    ELSE Trim(SubSeq(a, 1, Len(a) - 1))

\* a + b + carry
RECURSIVE AddDigits(_, _, _)
AddDigits(a, b, carry) ==
    IF a = <<>> /\ b = <<>> THEN NatDigits(carry)
    ELSE LET x == IF a = <<>> THEN 0 ELSE Head(a)
             y == IF b = <<>> THEN 0 ELSE Head(b)
             t == x + y + carry
         IN <<t % Base>> \o AddDigits(IF a = <<>> THEN <<>> ELSE Tail(a),
                                      IF b = <<>> THEN <<>> ELSE Tail(b),
                                      t \div Base)

\* a - b - borrow, for a >= b + borrow (leading zeros are left in place)
RECURSIVE SubDigits(_, _, _)
SubDigits(a, b, borrow) ==
    IF a = <<>> THEN <<>>
    ELSE LET y == IF b = <<>> THEN 0 ELSE Head(b)
             t == Head(a) - y - borrow
         IN <<t % Base>> \o SubDigits(Tail(a), IF b = <<>> THEN <<>> ELSE Tail(b),
                                      IF t < 0 THEN 1 ELSE 0)

\* a < b, for a and b without leading zeros
RECURSIVE LessDigits(_, _)
LessDigits(a, b) ==
    IF Len(a) # Len(b) THEN Len(a) < Len(b)
    ELSE IF a = <<>> THEN FALSE
    ELSE IF a[Len(a)] # b[Len(b)] THEN a[Len(a)] < b[Len(b)]
    ELSE LessDigits(Trim(SubSeq(a, 1, Len(a) - 1)), Trim(SubSeq(b, 1, Len(b) - 1)))

\* a * n + carry, for a natural n < Base
RECURSIVE MulSmall(_, _, _)
MulSmall(a, n, carry) ==
    IF a = <<>> THEN NatDigits(carry)
    ELSE LET t == Head(a) * n + carry
         IN <<t % Base>> \o MulSmall(Tail(a), n, t \div Base)

\* Long division of a by a natural n, 0 < n <= Base, from the highest digit
\* down: <<quotient, remainder>>, given the remainder rem of the digits above
RECURSIVE DivSmall(_, _, _)
DivSmall(a, n, rem) ==
    IF a = <<>> THEN <<(<<>>), rem>>
    ELSE LET t == rem * Base + a[Len(a)]
             rest == DivSmall(SubSeq(a, 1, Len(a) - 1), n, t % n)
         IN <<Append(rest[1], t \div n), rest[2]>>

\* The number of bits of a (without leading zeros)
BitLength(a) ==
    IF a = <<>> THEN 0
    ELSE (Len(a) - 1) * DigitBits
            + (CHOOSE k \in 1..DigitBits : 2 ^ (k - 1) <= a[Len(a)] /\ a[Len(a)] < 2 ^ k)

\* a * 2^k
ShiftLeft(a, k) ==
    IF a = <<>> THEN <<>>
    ELSE [i \in 1..(k \div DigitBits) |-> 0] \o Trim(MulSmall(a, 2 ^ (k % DigitBits), 0))

\* a \div 2^k
ShiftRight(a, k) ==
    LET whole == k \div DigitBits
    IN IF Len(a) <= whole THEN <<>>
       ELSE Trim(DivSmall(SubSeq(a, whole + 1, Len(a)), 2 ^ (k % DigitBits), 0)[1])

Zero == [neg |-> FALSE, m |-> <<>>, e |-> 0]

\* The number (-1)^neg * a * 2^e rounded to Precision bits, ties to even.
\* kept holds the Precision highest bits of a, guard is the bit below them
\* and sticky tells whether any lower bit is set.
Round(neg, a, e) ==
    LET b == Trim(a)
        k == BitLength(b) - Precision
    IN IF b = <<>> THEN Zero
       ELSE IF k <= 0 THEN [neg |-> neg, m |-> ShiftLeft(b, -k), e |-> e + k]
       ELSE LET kept == ShiftRight(b, k)
                withGuard == ShiftRight(b, k - 1)
                guard == withGuard[1] % 2
                sticky == ShiftLeft(withGuard, k - 1) # b
                up == guard = 1 /\ (sticky \/ kept[1] % 2 = 1)
                r == IF up THEN AddDigits(kept, <<>>, 1) ELSE kept
            IN IF BitLength(r) > Precision
               THEN [neg |-> neg, m |-> ShiftRight(r, 1), e |-> e + k + 1]
               ELSE [neg |-> neg, m |-> r, e |-> e + k]

\* The integer n as a JavaScript number
fromInt(n) ==
    IF n < 0 THEN Round(TRUE, NatDigits(-n), 0) ELSE Round(FALSE, NatDigits(n), 0)

\* x + y
fadd(x, y) ==
    IF x.m = <<>> THEN y
    ELSE IF y.m = <<>> THEN x
    ELSE LET e == IF x.e < y.e THEN x.e ELSE y.e
             a == ShiftLeft(x.m, x.e - e)
             b == ShiftLeft(y.m, y.e - e)
         IN IF x.neg = y.neg THEN Round(x.neg, AddDigits(a, b, 0), e)
            ELSE IF LessDigits(a, b) THEN Round(y.neg, SubDigits(b, a, 0), e)
            ELSE Round(x.neg, SubDigits(a, b, 0), e)

\* x - y
fsub(x, y) == fadd(x, [y EXCEPT !.neg = (~y.neg /\ y.m # <<>>)])

\* x * n, for a natural n < Base
fmul(x, n) == Round(x.neg, MulSmall(x.m, n, 0), x.e)

\* x / n, for a natural n, 0 < n < Base: the quotient is computed with
\* DigitBits + 1 further bits and a lowest bit that tells whether the
\* division left a remainder
fdiv(x, n) ==
    LET d == DivSmall(ShiftLeft(x.m, DigitBits + 1), n, 0)
    IN IF x.m = <<>> THEN x
       ELSE Round(x.neg, MulSmall(Trim(d[1]), 2, IF d[2] > 0 THEN 1 ELSE 0),
                  x.e - DigitBits - 2)

\* ------------------------------------------------------------ unit codecs
\* The channel and the EQ band the codec methods are called with
TestChannel == 1

TestBand == 1

\* The human values the codec methods are called with: Grid equal steps
\* from the centre of each documented domain to either boundary.
\* pan: -1 .. +1
PanDomain == {fdiv(fromInt(k), Grid) : k \in (-Grid)..Grid}

\* EQ gain: -15 dB .. +15 dB
GainDomain == {fdiv(fromInt(15 * k), Grid) : k \in (-Grid)..Grid}

\* gate threshold: -80 dB .. 0 dB
ThresholdDomain == {fdiv(fromInt(-40 * k), Grid) : k \in 0..(2 * Grid)}

\* Variant of the pan encoding that forgets the offset
mixerPanNoOffset(pan) == fdiv(pan, 2)

\* const mixerPan = (pan + 1) / 2
mixerPan(pan) == fdiv(fadd(pan, fromInt(1)), 2)

\* setPan(channel, pan): fire and forget
setPan(channel, pan) ==
    /\ LET path == getChannelPath(channel) \o "/mix/pan"
       IN last' = EventIn(<<channel, pan>>,
                      Event("setPan", path, <<>>, NoCall, "none", NoCall,
                            sendCommand(isConnected, responseCallbacks, path,
                                        <<mixerPan(pan)>>)))
    /\ UNCHANGED <<responseCallbacks, isConnected, sock, calls, timeouts, intervals>>

\* getPan(channel): const value = await this.sendAndReceive(path)
getPan(channel) ==
    /\ calls = <<>>
    /\ sendAndReceive(getChannelPath(channel) \o "/mix/pan")

\* The value getPan returns for the value its call resolved with:
\* value * 2 - 1
getPanReturn(value) == fsub(fmul(value, 2), fromInt(1))

\* const mixerGain = (gain + 15) / 30
mixerGain(gain) == fdiv(fadd(gain, fromInt(15)), 30)

\* setEQ(channel, band, gain): fire and forget
setEQ(channel, band, gain) ==
    /\ LET path == getChannelPath(channel) \o "/eq/" \o toString(band) \o "/g"
       IN last' = EventIn(<<channel, band, gain>>,
                      Event("setEQ", path, <<>>, NoCall, "none", NoCall,
                            sendCommand(isConnected, responseCallbacks, path,
                                        <<mixerGain(gain)>>)))
    /\ UNCHANGED <<responseCallbacks, isConnected, sock, calls, timeouts, intervals>>

\* getEQ(channel, band): const value = await this.sendAndReceive(path)
getEQ(channel, band) ==
    /\ calls = <<>>
    /\ sendAndReceive(getChannelPath(channel) \o "/eq/" \o toString(band) \o "/g")

\* The value getEQ returns for the value its call resolved with:
\* value * 30 - 15
getEQReturn(value) == fsub(fmul(value, 30), fromInt(15))

\* const mixerThreshold = (threshold + 80) / 80
mixerThreshold(threshold) == fdiv(fadd(threshold, fromInt(80)), 80)

\* setGate(channel, threshold): fire and forget
setGate(channel, threshold) ==
    /\ LET path == getChannelPath(channel) \o "/gate/thr"
       IN last' = EventIn(<<channel, threshold>>,
                      Event("setGate", path, <<>>, NoCall, "none", NoCall,
                            sendCommand(isConnected, responseCallbacks, path,
                                        <<mixerThreshold(threshold)>>)))
    /\ UNCHANGED <<responseCallbacks, isConnected, sock, calls, timeouts, intervals>>

\* getGate(channel): const value = await this.sendAndReceive(path)
getGate(channel) ==
    /\ calls = <<>>
    /\ sendAndReceive(getChannelPath(channel) \o "/gate/thr")

\* The value getGate returns for the value its call resolved with:
\* value * 80 - 80
getGateReturn(value) == fsub(fmul(value, 80), fromInt(80))

\* The replies of a mixer that answers a get with the wire value a set has
\* sent for the address
CodecReplies ==
    {<<getChannelPath(TestChannel) \o "/mix/pan", mixerPan(x)>> : x \in PanDomain}
        \cup {<<getChannelPath(TestChannel) \o "/eq/" \o toString(TestBand) \o "/g",
                mixerGain(x)>> : x \in GainDomain}
        \cup {<<getChannelPath(TestChannel) \o "/gate/thr", mixerThreshold(x)>> :
                x \in ThresholdDomain}

\* The handlers of a client that is connected at most once and on which the
\* codec setters and one codec getter are called
CodecNext ==
    \/ (sock = "init" /\ connect)
    \/ \E pan \in PanDomain : setPan(TestChannel, pan)
    \/ getPan(TestChannel)
    \/ \E gain \in GainDomain : setEQ(TestChannel, TestBand, gain)
    \/ getEQ(TestChannel, TestBand)
    \/ \E threshold \in ThresholdDomain : setGate(TestChannel, threshold)
    \/ getGate(TestChannel)
    \/ \E reply \in CodecReplies : onMessage(reply[1], <<reply[2]>>)
    \/ onTimeout

CodecSpec == Init /\ [][CodecNext]_vars

\* --------------------------------------------------------- getMixerStatus
\* getMixerStatus is called once, before any other getter: its /info call is
\* the first call and its /status call is the call for "/status".
statusCall(cs) ==
    IF \E c \in 1..Len(cs) : cs[c].address = "/status"
    THEN CHOOSE c \in 1..Len(cs) : cs[c].address = "/status"
    ELSE NoCall

\* getMixerStatus(): runs up to the first await,
\* const info = await this.sendAndReceive("/info")
getMixerStatus ==
    /\ calls = <<>>
    /\ sendAndReceive("/info")

\* The continuation of getMixerStatus is ready to run: /info has resolved
\* and /status has not been issued yet.  It runs as a microtask, before any
\* other handler.
ResumePending(cs) ==
    /\ cs # <<>>
    /\ cs[1].state = "resolved"
    /\ statusCall(cs) = NoCall

\* The continuation after /info has resolved:
\* const status = await this.sendAndReceive("/status").catch(() => null)
getMixerStatusResume ==
    /\ ResumePending(calls)
    /\ sendAndReceive("/status")

\* Variant of the result without .catch(() => null): a rejected /status
\* call is caught by the outer catch
getMixerStatusReturnNoCatch(cs) ==
    LET none == [state |-> "pending", connected |-> FALSE, info |-> 0,
                 status |-> <<>>, error |-> NoError]
        s == statusCall(cs)
    IN IF cs = <<>> \/ cs[1].state = "pending" THEN none
       ELSE IF cs[1].state = "rejected"
       THEN [none EXCEPT !.state = "returned", !.error = cs[1].error]
       ELSE IF s = NoCall \/ cs[s].state = "pending" THEN none
       ELSE IF cs[s].state = "rejected"
       THEN [none EXCEPT !.state = "returned", !.error = cs[s].error]
       ELSE [none EXCEPT !.state = "returned", !.connected = TRUE,
                         !.info = cs[1].value, !.status = <<cs[s].value>>]

\* What getMixerStatus has returned, given the calls it issued: nothing yet
\* (pending); {connected: false, error} when /info was rejected;
\* {connected: true, info, status} otherwise, where status is null (the
\* empty sequence) when /status was rejected.
getMixerStatusReturn(cs) ==
    LET none == [state |-> "pending", connected |-> FALSE, info |-> 0,
                 status |-> <<>>, error |-> NoError]
        s == statusCall(cs)
    IN IF cs = <<>> \/ cs[1].state = "pending" THEN none
       ELSE IF cs[1].state = "rejected"
       THEN [none EXCEPT !.state = "returned", !.error = cs[1].error]
       ELSE IF s = NoCall \/ cs[s].state = "pending" THEN none
       ELSE [none EXCEPT !.state = "returned", !.connected = TRUE,
                         !.info = cs[1].value,
                         !.status = IF cs[s].state = "resolved"
                                    THEN <<cs[s].value>> ELSE <<>>]

\* getInfo(): return await this.sendAndReceive("/info"); called at most
\* once, after getMixerStatus
getInfo ==
    /\ calls # <<>>
    /\ \A c \in 2..Len(calls) : calls[c].address # "/info"
    /\ sendAndReceive("/info")

\* The handlers of a client that is connected at most once and on which
\* getMixerStatus and then getInfo are called
StatusNext ==
    \/ getMixerStatusResume
    \/ (~ResumePending(calls) /\ sock = "init" /\ connect)
    \/ (~ResumePending(calls) /\ getMixerStatus)
    \/ (~ResumePending(calls) /\ getInfo)
    \/ \E address \in Addresses, args \in ArgLists :
          (~ResumePending(calls) /\ onMessage(address, args))
    \/ (~ResumePending(calls) /\ onTimeout)

StatusSpec == Init /\ [][StatusNext]_vars

\* ------------------------------------------------------------ send levels
\* The mix buses, aux outputs and matrices the send methods are called with
Buses == 1..16

Auxes == 1..6

Matrices == 1..6

\* sendToBus(channel, bus, level): fire and forget
sendToBus(channel, bus, level) ==
    /\ LET path == getChannelPath(channel) \o "/mix/"
                       \o padStart(toString(bus), 2, "0") \o "/level"
       IN last' = EventIn(<<channel, bus, level>>,
                      Event("sendToBus", path, <<>>, NoCall, "none", NoCall,
                            sendCommand(isConnected, responseCallbacks, path, <<level>>)))
    /\ UNCHANGED <<responseCallbacks, isConnected, sock, calls, timeouts, intervals>>

\* sendToAux(channel, aux, level): fire and forget
sendToAux(channel, aux, level) ==
    /\ LET path == getChannelPath(channel) \o "/mix/"
                       \o padStart(toString(aux + 15), 2, "0") \o "/level"
       IN last' = EventIn(<<channel, aux, level>>,
                      Event("sendToAux", path, <<>>, NoCall, "none", NoCall,
                            sendCommand(isConnected, responseCallbacks, path, <<level>>)))
    /\ UNCHANGED <<responseCallbacks, isConnected, sock, calls, timeouts, intervals>>

\* sendToMatrix(channel, matrix, level): fire and forget
sendToMatrix(channel, matrix, level) ==
    /\ LET path == getChannelPath(channel) \o "/mix/"
                       \o padStart(toString(matrix + 22), 2, "0") \o "/level"
       IN last' = EventIn(<<channel, matrix, level>>,
                      Event("sendToMatrix", path, <<>>, NoCall, "none", NoCall,
                            sendCommand(isConnected, responseCallbacks, path, <<level>>)))
    /\ UNCHANGED <<responseCallbacks, isConnected, sock, calls, timeouts, intervals>>

\* The handlers of a client that is connected at most once and whose send
\* methods are called
SendNext ==
    \/ (sock = "init" /\ connect)
    \/ \E channel \in Channels, bus \in Buses, level \in Values :
          sendToBus(channel, bus, level)
    \/ \E channel \in Channels, aux \in Auxes, level \in Values :
          sendToAux(channel, aux, level)
    \/ \E channel \in Channels, matrix \in Matrices, level \in Values :
          sendToMatrix(channel, matrix, level)

SendSpec == Init /\ [][SendNext]_vars

\* ----------------------------------------------------------- vocabulary
CallIds == 1..Len(calls)

\* The Pending Call of c is in the table
Registered(c) == <<calls[c].address, c>> \in responseCallbacks

TimedOut(c) ==
    /\ calls[c].state = "rejected"
    /\ calls[c].error = TimeoutError(calls[c].address)

\* The 1000 ms timer of c has fired
Expired(c) == c \notin Scheduled(timeouts)

\* ----------------------------------------------------------------- claims

\* C1: while a call for address A is registered in the table, an inbound
\* datagram for A with at least one argument resolves that call with the
\* datagram's first argument and removes the entry of A, and an inbound
\* datagram for a different address B leaves the call for A registered and
\* unsettled.
C1_Correlation ==
    [][\A c \in CallIds :
          (Registered(c) /\ last'.op = "message") =>
              /\ calls[c].state = "pending"
              /\ (last'.address = calls[c].address /\ last'.argc > 0) =>
                     /\ calls'[c].state = "resolved"
                     /\ calls'[c].value = last'.cbValue
                     /\ ~MapHas(responseCallbacks', calls[c].address)
              /\ (last'.address # calls[c].address) =>
                     /\ <<calls[c].address, c>> \in responseCallbacks'
                     /\ calls'[c] = calls[c]]_vars

\* A datagram has just resolved a call with its first argument while a call
\* for another address stays registered and pending.
C1_Witness ==
    /\ last.op = "message"
    /\ last.cb = "resolve"
    /\ calls[last.cbCall].state = "resolved"
    /\ calls[last.cbCall].value = last.cbValue
    /\ calls[last.cbCall].address = last.address
    /\ ~MapHas(responseCallbacks, last.address)
    /\ \E c \in CallIds :
          /\ calls[c].address # last.address
          /\ Registered(c)
          /\ calls[c].state = "pending"

\* C2: every issued call settles once the timers have fired: a call whose
\* own timer has fired is resolved with a reply's value or rejected with a
\* Timeout error (an unsettled call whose timer has fired has no entry and
\* no timer left, so it stays suspended forever).
C2_EveryCallSettles ==
    \A c \in CallIds : Expired(c) => (calls[c].state = "resolved" \/ TimedOut(c))

\* C3: when the timer of a call fires and no datagram for the call's
\* address arrived during its wait window, the call is rejected with a
\* Timeout error naming the address and the address has no entry left.
C3_TimeoutFails ==
    (last.op = "timeout" /\ ~calls[last.call].heard) =>
        /\ TimedOut(last.call)
        /\ ~MapHas(responseCallbacks, last.address)

\* C4: the entry of an address leaves the table only through a datagram for
\* that address that carries an argument, or through the timer of the call
\* that owns the entry.
C4_RemovedOnlyByMatchOrOwnTimer ==
    [][\A a \in Addresses :
          (MapHas(responseCallbacks, a) /\ ~MapHas(responseCallbacks', a)) =>
              \/ last'.op = "message" /\ last'.address = a /\ last'.argc > 0
              \/ last'.op = "timeout" /\ last'.call = MapGet(responseCallbacks, a)]_vars

\* C5: every request datagram of an issue is handed to the transport when
\* the table already holds the issuing call under the datagram's address,
\* and a datagram for that address delivered right after the issue resolves
\* the issuing call.
C5_RegisteredBeforeSend ==
    [][/\ last'.op = "issue" =>
             \A i \in 1..Len(last'.sent) :
                 /\ last'.sent[i].address = last'.address
                 /\ last'.sent[i].waiter = last'.call
       /\ (last.op = "issue" /\ Len(last.sent) > 0 /\ last'.op = "message"
             /\ last'.address = last.address /\ last'.argc > 0) =>
             /\ calls'[last.call].state = "resolved"
             /\ calls'[last.call].value = last'.cbValue]_vars

\* An issue has just sent its request while connected.
C5_Witness ==
    /\ last.op = "issue"
    /\ Len(last.sent) = 1
    /\ last.sent[1].waiter = last.call
    /\ Registered(last.call)

\* C6: the table never holds two entries for one address, and an issue for
\* an address that already has an entry replaces that entry with the entry
\* of the new call.
C6_OneEntryPerAddress ==
    /\ [](\A e1, e2 \in responseCallbacks : e1[1] = e2[1] => e1 = e2)
    /\ [][\A a \in Addresses :
             (MapHas(responseCallbacks, a) /\ last'.op = "issue" /\ last'.address = a) =>
                 /\ {e \in responseCallbacks' : e[1] = a} = {<<a, last'.call>>}
                 /\ last'.call # MapGet(responseCallbacks, a)]_vars

\* A second call has just replaced the entry of a first call that is still
\* pending.
C6_Witness ==
    /\ last.op = "issue"
    /\ Registered(last.call)
    /\ \E c \in CallIds :
          /\ c # last.call
          /\ calls[c].address = last.address
          /\ calls[c].overwritten
          /\ calls[c].state = "pending"
          /\ ~Registered(c)

\* C7: a call whose entry was overwritten by a later call to the same
\* address always ends resolved with a reply or rejected with Timeout once
\* its timer has fired.
C7_OverwrittenCallSettles ==
    \A c \in CallIds :
        (calls[c].overwritten /\ Expired(c)) =>
            (calls[c].state = "resolved" \/ TimedOut(c))

\* C8: calls for different addresses do not interfere: a call is resolved
\* only by a datagram for its own address and with that datagram's first
\* argument, and a datagram or a timeout for address A leaves every call for
\* another address, and its entry, as they were.
C8_DistinctAddressesIndependent ==
    [][\A c \in CallIds :
          /\ (calls[c].state = "pending" /\ calls'[c].state = "resolved") =>
                 /\ last'.op = "message"
                 /\ last'.address = calls[c].address
                 /\ last'.argc > 0
                 /\ calls'[c].value = last'.cbValue
          /\ (last'.op \in {"message", "timeout"} /\ last'.address # calls[c].address) =>
                 /\ calls'[c] = calls[c]
                 /\ Registered(c) <=> (<<calls[c].address, c>> \in responseCallbacks')]_vars

\* The call for one address has just timed out while a call for another
\* address is still registered and pending.
C8_Witness ==
    /\ last.op = "timeout"
    /\ last.cb = "reject"
    /\ TimedOut(last.call)
    /\ \E c \in CallIds :
          /\ calls[c].address # last.address
          /\ Registered(c)
          /\ calls[c].state = "pending"

\* C9: when close has run on a client that had been connected, the table is
\* empty and no call is still pending.
C9_CloseFailsPending ==
    (last.op = "close" /\ intervals > 0) =>
        /\ responseCallbacks = {}
        /\ \A c \in CallIds : calls[c].state # "pending"

\* C10: once the socket of a client that had been connected is closed, no
\* handler invokes a resolve or reject callback and no keep-alive handler
\* runs.
C10_NoCallbackAfterClose ==
    [][(sock = "closed" /\ intervals > 0) => (last'.cb = "none" /\ last'.op # "keepAlive")]_vars

\* The outcome of a call: its state, resolved value and error
Outcome(cs, c) == <<cs[c].state, cs[c].value, cs[c].error>>

\* The addresses of the datagrams a handler sent
SentAddresses(e) == {e.sent[i].address : i \in 1..Len(e.sent)}

\* C11: the result of an issue attempted before connect is a NotConnected
\* error: while the client has never been connected, every call that has
\* settled or whose timer has fired is rejected with NotConnected.
C11_NotConnectedReported ==
    sock = "init" =>
        \A c \in CallIds :
            (calls[c].state # "pending" \/ Expired(c)) =>
                /\ calls[c].state = "rejected"
                /\ calls[c].error.kind = "NotConnected"

\* C12: every keep-alive tick of a connected client transmits exactly one
\* /xremote datagram without arguments, only keep-alive ticks transmit
\* /xremote, and no handler that starts with the socket closed and leaves it
\* closed transmits /xremote.
C12_KeepAliveWhileOpen ==
    [][/\ (last'.op = "keepAlive" /\ isConnected) =>
              /\ Len(last'.sent) = 1
              /\ last'.sent[1].address = "/xremote"
              /\ last'.sent[1].args = <<>>
       /\ ("/xremote" \in SentAddresses(last')) => last'.op = "keepAlive"
       /\ (sock = "closed" /\ sock' = "closed") =>
              "/xremote" \notin SentAddresses(last')]_vars

\* A keep-alive tick has just run on a closed client and sent nothing.
C12_Witness ==
    /\ last.op = "keepAlive"
    /\ sock = "closed"
    /\ ~isConnected
    /\ last.sent = <<>>

\* C13: when close has run, no keep-alive timer is scheduled.
C13_CloseCancelsKeepAlive ==
    last.op = "close" => intervals = 0

\* C14: a connect that opens the socket transmits exactly one datagram,
\* /xcontrol without arguments; no other handler transmits /xcontrol; a
\* keep-alive timer is scheduled only by a connect that sent /xcontrol; and
\* a keep-alive tick runs only when such a timer is scheduled.
C14_XcontrolOnceThenTimer ==
    [][/\ last'.op = "connect" =>
              /\ Len(last'.sent) = 1
              /\ last'.sent[1].address = "/xcontrol"
              /\ last'.sent[1].args = <<>>
              /\ intervals' = intervals + 1
       /\ ("/xcontrol" \in SentAddresses(last')) => last'.op = "connect"
       /\ (intervals' # intervals) =>
              (last'.op = "connect" /\ "/xcontrol" \in SentAddresses(last'))
       /\ (last'.op = "keepAlive") => intervals > 0]_vars

\* The first connect of a client has just sent /xcontrol and scheduled the
\* only keep-alive timer.
C14_Witness ==
    /\ last.op = "connect"
    /\ last.sockBefore = "init"
    /\ SentAddresses(last) = {"/xcontrol"}
    /\ intervals = 1
    /\ isConnected

C16_UnmatchedDropped ==
    [][(last'.op = "message" /\ ~MapHas(responseCallbacks, last'.address)) =>
           /\ last'.cb = "none"
           /\ last'.sent = <<>>
           /\ \A c \in CallIds : Outcome(calls', c) = Outcome(calls, c)
           /\ UNCHANGED <<responseCallbacks, isConnected, sock, timeouts,
                          intervals>>]_vars

\* A datagram with an argument has just been dropped because its address has
\* no entry, while a call for another address is registered.
C16_Witness ==
    /\ last.op = "message"
    /\ last.argc > 0
    /\ last.cb = "none"
    /\ ~MapHas(responseCallbacks, last.address)
    /\ \E c \in CallIds : Registered(c) /\ calls[c].state = "pending"

\* C17: an issue transmits at most one datagram, a request without arguments
\* for its own address, and neither a timeout handler nor the dispatcher
\* transmits anything.
C17_NoRetry ==
    [][/\ last'.op = "issue" =>
              /\ Len(last'.sent) <= 1
              /\ \A i \in 1..Len(last'.sent) :
                     /\ last'.sent[i].address = last'.address
                     /\ last'.sent[i].args = <<>>
       /\ last'.op \in {"timeout", "message"} => last'.sent = <<>>]_vars

\* The timer of a call has just rejected the call while the client is
\* connected, and nothing was sent again.
C17_Witness ==
    /\ last.op = "timeout"
    /\ last.cb = "reject"
    /\ TimedOut(last.call)
    /\ isConnected
    /\ last.sent = <<>>

\* C18: a datagram whose first argument is 0, delivered for an address that
\* has an entry, resolves the registered call successfully with the value 0
\* and no error; a rejected call always carries an error and a resolved
\* call never does.
C18_ZeroIsNotFailure ==
    /\ [][\A a \in Addresses :
             (MapHas(responseCallbacks, a)
                 /\ (onMessage(a, <<0>>) \/ onMessage(a, <<0, 0>>))) =>
                 LET c == MapGet(responseCallbacks, a)
                 IN /\ calls'[c].state = "resolved"
                    /\ calls'[c].value = 0
                    /\ calls'[c].error = NoError]_vars
    /\ [](\A c \in CallIds :
             /\ calls[c].state = "rejected" => calls[c].error.kind # "none"
             /\ calls[c].state = "resolved" => calls[c].error = NoError)

\* One call has been resolved with the value 0 and another call has been
\* rejected.
C18_Witness ==
    /\ \E c \in CallIds : calls[c].state = "resolved" /\ calls[c].value = 0
    /\ \E c \in CallIds : calls[c].state = "rejected"

\* C19: for every channel ch and level v, setFader(ch, v) on a connected
\* client transmits exactly one datagram to /ch/NN/mix/fader (NN = ch padded
\* with zeros to two digits) whose only argument is v; getFader(ch)
\* transmits one datagram without arguments to the same address and waits
\* under it; and a reply for that address whose first argument is v makes
\* the waiting getFader return exactly v.
C19_FaderRoundTrip ==
    [][\A ch \in Channels, v \in Values :
        LET fader == "/ch/" \o (IF ch < 10 THEN "0" ELSE "") \o ToString(ch)
                         \o "/mix/fader"
            c == MapGet(responseCallbacks, fader)
        IN /\ (isConnected /\ last'.op = "setFader" /\ setFader(ch, v)) =>
                  /\ Len(last'.sent) = 1
                  /\ last'.sent[1].address = fader
                  /\ last'.sent[1].args = <<v>>
           /\ (isConnected /\ last'.op = "issue" /\ getFader(ch)) =>
                  /\ Len(last'.sent) = 1
                  /\ last'.sent[1].address = fader
                  /\ last'.sent[1].args = <<>>
                  /\ MapGet(responseCallbacks', fader) = last'.call
           /\ (c # NoCall /\ last'.op = "message"
                 /\ (onMessage(fader, <<v>>) \/ onMessage(fader, <<v, 0>>))) =>
                  /\ calls'[c].state = "resolved"
                  /\ getFaderReturn(calls'[c].value) = v]_vars

\* A getFader on channel 1 of a connected client was answered on
\* /ch/01/mix/fader and returned the reply's value 1.
C19_Witness ==
    /\ last.op = "message"
    /\ last.address = "/ch/01/mix/fader"
    /\ last.cb = "resolve"
    /\ isConnected
    /\ calls[last.cbCall].address = "/ch/01/mix/fader"
    /\ calls[last.cbCall].state = "resolved"
    /\ getFaderReturn(calls[last.cbCall].value) = 1

\* C20: for every channel ch and boolean m, muteChannel(ch, m) on a
\* connected client transmits exactly one datagram to /ch/NN/mix/on whose
\* only argument is 0 when m is true and 1 when m is false; getMute returns
\* true exactly when the reply's first argument is 0; so a getMute answered
\* with the value muteChannel(ch, m) sends returns m.
C20_MuteInvertedRoundTrip ==
    [][\A ch \in Channels, m \in BOOLEAN, v \in Values :
        LET on == "/ch/" \o (IF ch < 10 THEN "0" ELSE "") \o ToString(ch)
                      \o "/mix/on"
            wire == IF m THEN 0 ELSE 1
            c == MapGet(responseCallbacks, on)
        IN /\ (isConnected /\ last'.op = "muteChannel" /\ muteChannel(ch, m)) =>
                  /\ Len(last'.sent) = 1
                  /\ last'.sent[1].address = on
                  /\ last'.sent[1].args = <<wire>>
           /\ (isConnected /\ last'.op = "issue" /\ getMute(ch)) =>
                  /\ Len(last'.sent) = 1
                  /\ last'.sent[1].address = on
                  /\ last'.sent[1].args = <<>>
           /\ (c # NoCall /\ last'.op = "message" /\ onMessage(on, <<v>>)) =>
                  /\ calls'[c].state = "resolved"
                  /\ getMuteReturn(calls'[c].value) <=> (v = 0)
           /\ (c # NoCall /\ last'.op = "message" /\ onMessage(on, <<muteWire(m)>>)) =>
                  /\ calls'[c].state = "resolved"
                  /\ getMuteReturn(calls'[c].value) = m]_vars

\* A getMute on channel MaxChannel of a connected client was answered on
\* the channel's /mix/on address with 0, the value muteChannel(ch, TRUE)
\* sends, and returned true.
C20_Witness ==
    /\ last.op = "message"
    /\ last.address = getChannelPath(MaxChannel) \o "/mix/on"
    /\ last.cb = "resolve"
    /\ isConnected
    /\ calls[last.cbCall].state = "resolved"
    /\ calls[last.cbCall].value = muteWire(TRUE)
    /\ getMuteReturn(calls[last.cbCall].value)

\* C21 (as stated): the codecs are exact inverses: setPan sends (pan+1)/2,
\* setEQ sends (gain+15)/30 and setGate sends (thr+80)/80, and for every
\* value x of a domain, a get answered with the wire value that the set of x
\* sent returns exactly x.
C21_CodecsExactInverses ==
    [][(last'.op = "message" /\ last'.cb = "resolve") =>
        LET v == calls'[last'.cbCall].value
        IN /\ \A x \in PanDomain :
                (last'.address = "/ch/01/mix/pan" /\ v = mixerPan(x)) => getPanReturn(v) = x
           /\ \A x \in GainDomain :
                (last'.address = "/ch/01/eq/1/g" /\ v = mixerGain(x)) => getEQReturn(v) = x
           /\ \A x \in ThresholdDomain :
                (last'.address = "/ch/01/gate/thr" /\ v = mixerThreshold(x)) => getGateReturn(v) = x]_vars

\* C21 (amended): setPan, setEQ and setGate on a connected client send one
\* datagram whose only argument is 0 at the lower boundary of the domain,
\* 0.5 at its midpoint and 1 at its upper boundary; and for every value x of
\* a domain, a get answered with the wire value that the set of x sent
\* returns x up to floating-point rounding: the returned value differs from
\* x by less than 2^-44, and is exactly x at the boundaries and the midpoint.
C21_CodecsInverseUpToRounding ==
    [][LET half == fdiv(fromInt(1), 2)
           Wire(lo, mid, hi, x) ==
               IF x = fromInt(lo) THEN Zero
               ELSE IF x = fromInt(mid) THEN half
               ELSE fromInt(1)
           Close(r, x) ==
               LET d == fsub(r, x) IN d.m = <<>> \/ d.e + Precision <= -44
           Exact(lo, mid, hi, r, x) ==
               x \in {fromInt(lo), fromInt(mid), fromInt(hi)} => r = x
           v == calls'[last'.cbCall].value
           x1 == last'.input[Len(last'.input)]
       IN  /\ (isConnected /\ last'.op \in {"setPan", "setEQ", "setGate"}) =>
                /\ Len(last'.sent) = 1
                /\ Len(last'.sent[1].args) = 1
           /\ (isConnected /\ last'.op = "setPan"
                 /\ x1 \in {fromInt(-1), fromInt(0), fromInt(1)}) =>
                /\ last'.sent[1].address = "/ch/01/mix/pan"
                /\ last'.sent[1].args[1] = Wire(-1, 0, 1, x1)
           /\ (isConnected /\ last'.op = "setEQ"
                 /\ x1 \in {fromInt(-15), fromInt(0), fromInt(15)}) =>
                /\ last'.sent[1].address = "/ch/01/eq/1/g"
                /\ last'.sent[1].args[1] = Wire(-15, 0, 15, x1)
           /\ (isConnected /\ last'.op = "setGate"
                 /\ x1 \in {fromInt(-80), fromInt(-40), fromInt(0)}) =>
                /\ last'.sent[1].address = "/ch/01/gate/thr"
                /\ last'.sent[1].args[1] = Wire(-80, -40, 0, x1)
           /\ (last'.op = "message" /\ last'.cb = "resolve") =>
                /\ \A x \in PanDomain :
                     (last'.address = "/ch/01/mix/pan" /\ v = mixerPan(x)) =>
                        /\ Close(getPanReturn(v), x)
                        /\ Exact(-1, 0, 1, getPanReturn(v), x)
                /\ \A x \in GainDomain :
                     (last'.address = "/ch/01/eq/1/g" /\ v = mixerGain(x)) =>
                        /\ Close(getEQReturn(v), x)
                        /\ Exact(-15, 0, 15, getEQReturn(v), x)
                /\ \A x \in ThresholdDomain :
                     (last'.address = "/ch/01/gate/thr" /\ v = mixerThreshold(x)) =>
                        /\ Close(getGateReturn(v), x)
                        /\ Exact(-80, -40, 0, getGateReturn(v), x)]_vars

\* A getPan on a connected client was answered with the wire value that
\* setPan sends for a pan x of the domain, and returned a value that is not x.
C21_Witness ==
    /\ last.op = "message"
    /\ last.cb = "resolve"
    /\ last.address = "/ch/01/mix/pan"
    /\ isConnected
    /\ \E x \in PanDomain :
          /\ calls[last.cbCall].value = mixerPan(x)
          /\ getPanReturn(calls[last.cbCall].value) # x

\* C22: a set operation is fire and forget: setFader and muteChannel hand
\* their datagram to sendCommand (one datagram for their address on a
\* connected client) and leave the callback table, every call and every
\* timeout timer as they were, also when a get for the same address is
\* pending.
C22_SetIsFireAndForget ==
    [][last'.op \in {"setFader", "muteChannel"} =>
        /\ UNCHANGED <<responseCallbacks, calls, timeouts, isConnected, sock, intervals>>
        /\ last'.cb = "none"
        /\ isConnected => (Len(last'.sent) = 1 /\ last'.sent[1].address = last'.address)]_vars

\* A setFader ran on a connected client while a getFader for the same
\* address was pending, and the get is still registered and pending.
C22_Witness ==
    /\ last.op = "setFader"
    /\ isConnected
    /\ Len(last.sent) = 1
    /\ \E c \in CallIds :
          /\ calls[c].address = last.address
          /\ calls[c].state = "pending"
          /\ Registered(c)
          /\ c \in Scheduled(timeouts)

\* C23: a datagram without arguments is dropped even when its address has a
\* registered call: no callback is invoked, no call changes its outcome, the
\* entry stays in the table and the call's timer stays scheduled.
C23_EmptyDatagramDropped ==
    [][(last'.op = "message" /\ last'.argc = 0
            /\ MapHas(responseCallbacks, last'.address)) =>
        /\ last'.cb = "none"
        /\ last'.sent = <<>>
        /\ \A c \in CallIds : Outcome(calls', c) = Outcome(calls, c)
        /\ UNCHANGED <<responseCallbacks, timeouts, isConnected, sock, intervals>>]_vars

\* A datagram without arguments arrived for an address whose call is
\* registered, pending and still has its timer.
C23_Witness ==
    /\ last.op = "message"
    /\ last.argc = 0
    /\ last.cb = "none"
    /\ \E c \in CallIds :
          /\ calls[c].address = last.address
          /\ Registered(c)
          /\ calls[c].state = "pending"
          /\ c \in Scheduled(timeouts)

\* C25: no datagram is handed to the transport while the client is not
\* connected: a handler that starts with the flag false and is not connect
\* sends nothing, and whenever a handler sends, the flag is true when it
\* returns.
C25_NothingSentWhileNotConnected ==
    [][/\ (~isConnected /\ last'.op # "connect") => last'.sent = <<>>
       /\ last'.sent # <<>> => isConnected']_vars

\* A setter ran after close and sent nothing.
C25_Witness ==
    /\ last.op \in {"setFader", "muteChannel"}
    /\ last.sockBefore = "closed"
    /\ ~isConnected
    /\ last.sent = <<>>

\* C26: an issue attempted while the client is not connected leaves the
\* callback table and the timers unchanged.
C26_IssueWhileNotConnectedIsNoOp ==
    [][(last'.op = "issue" /\ ~isConnected) =>
        UNCHANGED <<responseCallbacks, timeouts>>]_vars

\* C27: getMixerStatus never fails.  It issues /status only after /info has
\* resolved, and /status is sent by its continuation only; when /info is
\* rejected with the timeout error it returns connected = false with that
\* error and /status is never issued; when /info resolved it returns
\* connected = true with the info value, with status = null when /status
\* timed out and with the reply's value when /status resolved.
C27_MixerStatusNeverFails ==
    /\ [][("/status" \in SentAddresses(last')) =>
            (calls # <<>> /\ calls[1].state = "resolved"
                /\ last'.op = "issue" /\ last'.call = statusCall(calls'))]_vars
    /\ [](LET r == getMixerStatusReturn(calls)
              s == statusCall(calls)
          IN /\ r.state \in {"pending", "returned"}
             /\ s # NoCall => (s > 1 /\ calls[1].state = "resolved")
             /\ (calls # <<>> /\ calls[1].state = "rejected") =>
                   /\ s = NoCall
                   /\ r.state = "returned"
                   /\ ~r.connected
                   /\ r.error = [kind |-> "Timeout", address |-> "/info"]
             /\ (s # NoCall /\ calls[s].state = "rejected") =>
                   /\ r.state = "returned"
                   /\ r.connected
                   /\ r.info = calls[1].value
                   /\ r.status = <<>>
                   /\ r.error = NoError
             /\ (s # NoCall /\ calls[s].state = "resolved") =>
                   /\ r.state = "returned"
                   /\ r.connected
                   /\ r.info = calls[1].value
                   /\ r.status = <<calls[s].value>>)

\* /info resolved, /status was sent by a connected client and timed out, and
\* getMixerStatus returned connected = true with status = null.
C27_Witness ==
    /\ isConnected
    /\ statusCall(calls) # NoCall
    /\ calls[1].state = "resolved"
    /\ TimedOut(statusCall(calls))
    /\ getMixerStatusReturn(calls).state = "returned"
    /\ getMixerStatusReturn(calls).connected
    /\ getMixerStatusReturn(calls).status = <<>>

\* C28: two different getters never share an address: with getMixerStatus
\* and getInfo both outstanding, neither replaces the other's entry in the
\* callback table.
C28_GettersNeverShareAddress ==
    \A c \in CallIds : ~calls[c].overwritten

\* C29: the send-level addresses are pairwise distinct: two sends that
\* differ in the operation (sendToBus, sendToAux, sendToMatrix), the channel
\* or the index never write the same address.
C29_SendAddressesDistinct ==
    [][(/\ last.op \in {"sendToBus", "sendToAux", "sendToMatrix"}
        /\ last'.op \in {"sendToBus", "sendToAux", "sendToMatrix"}
        /\ <<last.op, last.input[1], last.input[2]>>
              # <<last'.op, last'.input[1], last'.input[2]>>) =>
            last.address # last'.address]_vars

====
